---- MODULE Spec2Model ----
(***************************************************************************)
(* Model of blender_npy_depth_import.py: the ImportNPYDepthMap operator.   *)
(*                                                                         *)
(* Numbers are exact rationals <<n, d>> in lowest terms with d > 0; the    *)
(* pair <<0, 0>> stands for NaN.  Arrays are records [shape, data] with    *)
(* 0-based row and column indices, as in numpy.  Vertex indices inside     *)
(* faces are the 0-based integers the code computes; the vertex table      *)
(* itself is a sequence, so bm.verts[i] is verts[i + 1].                   *)
(***************************************************************************)
EXTENDS Integers, Sequences, FiniteSets, TLC

VARIABLES pc, use_cube, depth_scale, data, depth_array, grid, bm, base_verts,
          data_meshes, data_objects, collection, mesh_obj, selected, active,
          reports, result

vars == <<pc, use_cube, depth_scale, data, depth_array, grid, bm, base_verts,
          data_meshes, data_objects, collection, mesh_obj, selected, active,
          reports, result>>

(***************************************************************************)
(* Bounds of the model.                                                    *)
(***************************************************************************)
MaxHeight == 2
MaxWidth == 3
MaxNdim == 3
MaxRawHeight == 2
MaxRawWidth == 2

(***************************************************************************)
(* Exact rational arithmetic (Python float arithmetic without rounding).   *)
(***************************************************************************)
Abs(n) == IF n < 0 THEN 0 - n ELSE n

RECURSIVE GCD(_, _)
GCD(a, b) == IF b = 0 THEN a ELSE GCD(b, a % b)

Rat(n, d) ==
    LET g == GCD(Abs(n), Abs(d))
        s == IF d < 0 THEN 0 - 1 ELSE 1
    IN <<(s * n) \div g, (s * d) \div g>>

NaN == <<0, 0>>
Zero == <<0, 1>>
One == <<1, 1>>
Half == <<1, 2>>

IsNaN(a) == a[2] = 0

RatSub(a, b) == Rat(a[1] * b[2] - b[1] * a[2], a[2] * b[2])
RatMul(a, b) == Rat(a[1] * b[1], a[2] * b[2])
RatDiv(a, b) == Rat(a[1] * b[2], a[2] * b[1])
RatLess(a, b) == a[1] * b[2] < b[1] * a[2]
RatLeq(a, b) == a[1] * b[2] <= b[1] * a[2]

(***************************************************************************)
(* numpy arrays.                                                           *)
(***************************************************************************)
Ndim(a) == Len(a.shape)

RECURSIVE Product(_, _)
Product(dims, n) == IF n = 0 THEN 1 ELSE dims[n] * Product(dims, n - 1)

Size(a) == Product(a.shape, Ndim(a))

Rows(a) == 0 .. (a.shape[1] - 1)
Cols(a) == 0 .. (a.shape[2] - 1)

Elements(a) == {a.data[r][c] : r \in Rows(a), c \in Cols(a)}

Array2D(h, w, vals) ==
    {[shape |-> <<h, w>>, data |-> d] : d \in [0 .. (h - 1) -> [0 .. (w - 1) -> vals]]}

ArrayMap(a, F(_)) ==
    [a EXCEPT !.data = [r \in Rows(a) |-> [c \in Cols(a) |-> F(a.data[r][c])]]]

\* np.nan_to_num: NaN becomes 0.0, finite values are kept (infinities are
\* not among the element values of the model).
NanToNum(v) == IF IsNaN(v) THEN Zero ELSE v

\* np.min / np.max over all elements of a non-empty array.
NpMin(a) == LET es == Elements(a) IN CHOOSE m \in es : \A e \in es : RatLeq(m, e)
NpMax(a) == LET es == Elements(a) IN CHOOSE m \in es : \A e \in es : RatLeq(e, m)

\* np.pad(a, pad_width=1, mode='constant', constant_values=v)
NpPad(a, v) ==
    LET h == a.shape[1]
        w == a.shape[2]
    IN [shape |-> <<h + 2, w + 2>>,
        data |-> [r \in 0 .. (h + 1) |-> [c \in 0 .. (w + 1) |->
                    IF r = 0 \/ r = h + 1 \/ c = 0 \/ c = w + 1
                    THEN v ELSE a.data[r - 1][c - 1]]]]

(***************************************************************************)
(* process_depth_array                                                     *)
(***************************************************************************)
\* mutant: the minimum is not subtracted
process_depth_array_nomin(arr, scale) ==
    LET cleaned == ArrayMap(arr, NanToNum)
        depth_min == NpMin(cleaned)
        depth_max == NpMax(cleaned)
        Normalize(v) == RatDiv(v, RatSub(depth_max, depth_min))
        normalized == IF RatLess(Zero, RatSub(depth_max, depth_min))
                      THEN ArrayMap(cleaned, Normalize)
                      ELSE cleaned
        Scale(v) == RatMul(v, scale)
    IN ArrayMap(normalized, Scale)

process_depth_array(arr, scale) ==
    LET cleaned == ArrayMap(arr, NanToNum)
        depth_min == NpMin(cleaned)
        depth_max == NpMax(cleaned)
        Normalize(v) == RatDiv(RatSub(v, depth_min), RatSub(depth_max, depth_min))
        normalized == IF RatLess(Zero, RatSub(depth_max, depth_min))
                      THEN ArrayMap(cleaned, Normalize)
                      ELSE cleaned
        Scale(v) == RatMul(v, scale)
    IN ArrayMap(normalized, Scale)

(***************************************************************************)
(* Python range / reversed / list building.                                *)
(***************************************************************************)
Range(a, b) == [i \in 1 .. (IF b > a THEN b - a ELSE 0) |-> a + i - 1]

Reversed(s) == [i \in 1 .. Len(s) |-> s[Len(s) + 1 - i]]

SeqMap(s, F(_)) == [i \in 1 .. Len(s) |-> F(s[i])]

SeqRange(s) == {s[i] : i \in 1 .. Len(s)}

(***************************************************************************)
(* bmesh: a vertex table, a face table, and the log of faces.new calls.    *)
(***************************************************************************)
EmptyBMesh == [verts |-> <<>>, faces |-> <<>>, calls |-> <<>>]

\* bm.faces.new(face) raises when a vertex index is out of range, when the
\* face has fewer than three vertices, when a vertex is used twice, or when
\* a face on the same vertices exists; ext is the number of the call that
\* the host makes fail for a reason of its own (-1: none).
FacesNewRaises(mesh, face, ext) ==
    LET on == SeqRange(face)
    IN \/ Len(mesh.calls) = ext
       \/ \E v \in on : v < 0 \/ v >= Len(mesh.verts)
       \/ Len(face) < 3
       \/ Cardinality(on) < Len(face)
       \/ \E k \in 1 .. Len(mesh.faces) : SeqRange(mesh.faces[k]) = on

\* mutant: a failed face creation empties the face table
FacesNewDropping(mesh, face, ext) ==
    LET raised == FacesNewRaises(mesh, face, ext)
    IN [verts |-> mesh.verts,
        faces |-> IF raised THEN <<>> ELSE Append(mesh.faces, face),
        calls |-> Append(mesh.calls, [face |-> face, raised |-> raised])]

FacesNew(mesh, face, ext) ==
    LET raised == FacesNewRaises(mesh, face, ext)
    IN [verts |-> mesh.verts,
        faces |-> IF raised THEN mesh.faces ELSE Append(mesh.faces, face),
        calls |-> Append(mesh.calls, [face |-> face, raised |-> raised])]

(***************************************************************************)
(* create_depthmap_bmesh                                                   *)
(***************************************************************************)
MeshWidth(height, width) == IF height > width THEN Rat(width, height) ELSE One
MeshHeight(height, width) == IF width > height THEN Rat(height, width) ELSE One

XNorm(x, height, width) ==
    IF width > 1 THEN RatMul(Rat(x, width - 1), MeshWidth(height, width)) ELSE Zero

YNorm(y, height, width) ==
    IF height > 1 THEN RatMul(Rat(y, height - 1), MeshHeight(height, width)) ELSE Zero

\* mutant: the rows are not flipped
DepthAtNoFlip(arr, x, y) == arr.data[y][x]

DepthAt(arr, x, y) == arr.data[arr.shape[1] - 1 - y][x]

VertexAt(arr, x, y) ==
    LET height == arr.shape[1]
        width == arr.shape[2]
    IN <<RatSub(XNorm(x, height, width), Half),
         RatSub(YNorm(y, height, width), Half),
         DepthAt(arr, x, y)>>

\* mutant: the last column gets no vertices
RECURSIVE CreateVerticesShort(_, _, _, _)
CreateVerticesShort(arr, y, x, verts) ==
    IF y >= arr.shape[1] THEN verts
    ELSE IF x >= arr.shape[2] - 1 THEN CreateVerticesShort(arr, y + 1, 0, verts)
    ELSE CreateVerticesShort(arr, y, x + 1, Append(verts, VertexAt(arr, x, y)))

RECURSIVE CreateVertices(_, _, _, _)
CreateVertices(arr, y, x, verts) ==
    IF y >= arr.shape[1] THEN verts
    ELSE IF x >= arr.shape[2] THEN CreateVertices(arr, y + 1, 0, verts)
    ELSE CreateVertices(arr, y, x + 1, Append(verts, VertexAt(arr, x, y)))

QuadAt(width, x, y) ==
    <<y * width + x, y * width + (x + 1), (y + 1) * width + (x + 1), (y + 1) * width + x>>

\* mutant: the last column of quads is left out
RECURSIVE CreateFacesShort(_, _, _, _, _, _)
CreateFacesShort(mesh, height, width, y, x, ext) ==
    IF y >= height - 1 THEN mesh
    ELSE IF x >= width - 2 THEN CreateFacesShort(mesh, height, width, y + 1, 0, ext)
    ELSE CreateFacesShort(FacesNew(mesh, QuadAt(width, x, y), ext), height, width, y, x + 1, ext)

RECURSIVE CreateFaces(_, _, _, _, _, _)
CreateFaces(mesh, height, width, y, x, ext) ==
    IF y >= height - 1 THEN mesh
    ELSE IF x >= width - 1 THEN CreateFaces(mesh, height, width, y + 1, 0, ext)
    ELSE CreateFaces(FacesNew(mesh, QuadAt(width, x, y), ext), height, width, y, x + 1, ext)

create_depthmap_bmesh(arr, ext) ==
    LET mesh == [EmptyBMesh EXCEPT !.verts = CreateVertices(arr, 0, 0, <<>>)]
    IN CreateFaces(mesh, arr.shape[1], arr.shape[2], 0, 0, ext)

(***************************************************************************)
(* create_cube_mesh: the vertices of the base face.                        *)
(***************************************************************************)
\* mutant: the top row runs back to the first corner
BaseVertsRevisit(height, width) ==
    LET Left(y) == y * width
        Bottom(x) == (height - 1) * width + x
        Right(y) == y * width + (width - 1)
        Top(x) == x
    IN SeqMap(Range(0, height - 1), Left)
         \o SeqMap(Range(1, width - 1), Bottom)
         \o SeqMap(Reversed(Range(0, height - 2)), Right)
         \o SeqMap(Reversed(Range(0, width - 2)), Top)

BaseVerts(height, width) ==
    LET Left(y) == y * width
        Bottom(x) == (height - 1) * width + x
        Right(y) == y * width + (width - 1)
        Top(x) == x
    IN SeqMap(Range(0, height - 1), Left)
         \o SeqMap(Range(1, width - 1), Bottom)
         \o SeqMap(Reversed(Range(0, height - 2)), Right)
         \o SeqMap(Reversed(Range(1, width - 2)), Top)

\* create_cube_mesh up to the base face: pad with the maximum depth, build
\* the grid, request the base face.
PaddedArray(arr) == NpPad(arr, NpMax(arr))

create_cube_bmesh(arr, ext) ==
    LET padded == PaddedArray(arr)
        top == create_depthmap_bmesh(padded, ext)
    IN FacesNew(top, BaseVerts(padded.shape[1], padded.shape[2]), ext)

\* bm.to_mesh(mesh): the mesh datablock receives the vertices and faces.
ToMesh(name, mesh) == [name |-> name, verts |-> mesh.verts, faces |-> mesh.faces]

(***************************************************************************)
(* The operator's properties and the files it may be given.                *)
(***************************************************************************)
\* depth_scale: the minimum, the default and the maximum of the property.
DepthScales == {Rat(1, 1000), One, Rat(1000, 1)}

\* Element values of the files given to execute.
FileValues == {NaN, Rat(3, 1)}

\* Element values of the arrays given to process_depth_array on its own.
RawValues == {Rat(0 - 1, 1), Rat(1, 1), Rat(2, 1)}

\* Arrays that are not 2-dimensional: only their shape matters.
OtherShapes == UNION {[1 .. n -> 0 .. 1] : n \in (0 .. MaxNdim) \ {2}}

\* The 2-dimensional files: one value everywhere, or everywhere but in one cell.
FileArrays2D(h, w) ==
    {[shape |-> <<h, w>>,
      data |-> [r \in 0 .. (h - 1) |-> [c \in 0 .. (w - 1) |->
                  IF <<r, c>> = m THEN fg ELSE bg]]] :
        m \in (0 .. h) \X (0 .. w), bg \in FileValues, fg \in FileValues}

FileArrays ==
    UNION {FileArrays2D(h, w) : h \in 0 .. MaxHeight, w \in 0 .. MaxWidth}
      \cup {[shape |-> sh, data |-> <<>>] : sh \in OtherShapes}

RawArrays ==
    UNION {Array2D(h, w, RawValues) : h \in 1 .. MaxRawHeight, w \in 1 .. MaxRawWidth}

NoArray == [shape |-> <<>>, data |-> <<>>]

\* shape of execute's depth_array
InHeight == depth_array.shape[1]
InWidth == depth_array.shape[2]

Report(level, message) == [level |-> level, message |-> message]

(***************************************************************************)
(* execute                                                                 *)
(***************************************************************************)
Init ==
    /\ pc = "start"
    /\ use_cube \in BOOLEAN
    /\ depth_scale \in DepthScales
    /\ data = NoArray
    /\ depth_array = NoArray
    /\ grid = NoArray
    /\ bm = EmptyBMesh
    /\ base_verts = <<>>
    /\ data_meshes = <<>>
    /\ data_objects = <<>>
    /\ collection = <<>>
    /\ mesh_obj = <<>>
    /\ selected = {}
    /\ active = {}
    /\ reports = <<>>
    /\ result = "NONE"

\* except Exception as e: report and cancel.
Except ==
    /\ reports' = Append(reports, Report("ERROR", "Failed to import"))
    /\ result' = "CANCELLED"
    /\ pc' = "done"

\* np.load and the choice of the first array of an .npz file.
Load ==
    /\ pc = "start"
    /\ \/ /\ Except
          /\ UNCHANGED <<data, depth_array>>
       \/ /\ \E a \in FileArrays : data' = a /\ depth_array' = a
          /\ pc' = "loaded"
          /\ UNCHANGED <<reports, result>>
    /\ UNCHANGED <<use_cube, depth_scale, grid, bm, base_verts, data_meshes,
                   data_objects, collection, mesh_obj, selected, active>>

\* mutant: only arrays of fewer than 2 dimensions are rejected
CheckDimensionsAtLeast2D ==
    /\ pc = "loaded"
    /\ IF Ndim(depth_array) < 2
       THEN /\ reports' = Append(reports, Report("ERROR", "Depth map must be 2D"))
            /\ result' = "CANCELLED"
            /\ pc' = "done"
       ELSE /\ pc' = "checked"
            /\ UNCHANGED <<reports, result>>
    /\ UNCHANGED <<use_cube, depth_scale, data, depth_array, grid, bm, base_verts,
                   data_meshes, data_objects, collection, mesh_obj, selected, active>>

\* if depth_array.ndim != 2
CheckDimensions ==
    /\ pc = "loaded"
    /\ IF Ndim(depth_array) # 2
       THEN /\ reports' = Append(reports, Report("ERROR", "Depth map must be 2D"))
            /\ result' = "CANCELLED"
            /\ pc' = "done"
       ELSE /\ pc' = "checked"
            /\ UNCHANGED <<reports, result>>
    /\ UNCHANGED <<use_cube, depth_scale, data, depth_array, grid, bm, base_verts,
                   data_meshes, data_objects, collection, mesh_obj, selected, active>>

\* depth_array = self.process_depth_array(depth_array); np.min raises on an
\* array without elements.  The elements of an array that is not
\* 2-dimensional are not modelled.
ProcessDepthArray ==
    /\ pc = "checked"
    /\ IF Size(depth_array) = 0
       THEN /\ Except
            /\ UNCHANGED depth_array
       ELSE /\ depth_array' = IF Ndim(depth_array) = 2
                              THEN process_depth_array(depth_array, depth_scale)
                              ELSE depth_array
            /\ pc' = "processed"
            /\ UNCHANGED <<reports, result>>
    /\ UNCHANGED <<use_cube, depth_scale, data, grid, bm, base_verts, data_meshes,
                   data_objects, collection, mesh_obj, selected, active>>

\* create_plane_mesh / create_cube_mesh on an array that is not
\* 2-dimensional: the mesh and the object are created and linked, then
\* "height, width = depth_array.shape" raises.
CreateMeshUnpackFails(name) ==
    /\ data_meshes' = Append(data_meshes, ToMesh(name, EmptyBMesh))
    /\ data_objects' = Append(data_objects, name)
    /\ collection' = Append(collection, name)
    /\ Except
    /\ UNCHANGED <<grid, bm, base_verts, mesh_obj>>

\* mesh_obj = self.create_plane_mesh(depth_array, context); ext ranges over
\* the passes of the quad loop.
CreatePlaneMesh ==
    /\ pc = "processed"
    /\ ~use_cube
    /\ IF Ndim(depth_array) # 2
       THEN CreateMeshUnpackFails("DepthMap_Plane")
       ELSE /\ grid' = depth_array
            /\ \E ext \in (0 - 1) .. ((InHeight - 1) * (InWidth - 1) - 1) :
                 bm' = create_depthmap_bmesh(depth_array, ext)
            /\ data_meshes' = Append(data_meshes, ToMesh("DepthMap_Plane", bm'))
            /\ data_objects' = Append(data_objects, "DepthMap_Plane")
            /\ collection' = Append(collection, "DepthMap_Plane")
            /\ mesh_obj' = <<"DepthMap_Plane">>
            /\ pc' = "built"
            /\ UNCHANGED <<base_verts, reports, result>>
    /\ UNCHANGED <<use_cube, depth_scale, data, depth_array, selected, active>>

\* mesh_obj = self.create_cube_mesh(depth_array, context); ext ranges over
\* the passes of the quad loop of the padded grid and the base face.
CreateCubeMesh ==
    /\ pc = "processed"
    /\ use_cube
    /\ IF Ndim(depth_array) # 2
       THEN CreateMeshUnpackFails("DepthMap_Cube")
       ELSE /\ grid' = PaddedArray(depth_array)
            /\ base_verts' = BaseVerts(InHeight + 2, InWidth + 2)
            /\ \E ext \in (0 - 1) .. ((InHeight + 1) * (InWidth + 1)) :
                 bm' = create_cube_bmesh(depth_array, ext)
            /\ reports' = IF bm'.calls[Len(bm'.calls)].raised
                          THEN Append(reports, Report("ERROR", "Failed to create base face"))
                          ELSE reports
            /\ data_meshes' = Append(data_meshes, ToMesh("DepthMap_Cube", bm'))
            /\ data_objects' = Append(data_objects, "DepthMap_Cube")
            /\ collection' = Append(collection, "DepthMap_Cube")
            /\ mesh_obj' = <<"DepthMap_Cube">>
            /\ pc' = "built"
            /\ UNCHANGED result
    /\ UNCHANGED <<use_cube, depth_scale, data, depth_array, selected, active>>

\* select the object, make it active, report success.
Finish ==
    /\ pc = "built"
    /\ selected' = {mesh_obj[1]}
    /\ active' = {mesh_obj[1]}
    /\ reports' = Append(reports, Report("INFO", "Successfully imported"))
    /\ result' = "FINISHED"
    /\ pc' = "done"
    /\ UNCHANGED <<use_cube, depth_scale, data, depth_array, grid, bm, base_verts,
                   data_meshes, data_objects, collection, mesh_obj>>

Next ==
    \/ Load
    \/ CheckDimensions
    \/ ProcessDepthArray
    \/ CreatePlaneMesh
    \/ CreateCubeMesh
    \/ Finish

Spec == Init /\ [][Next]_vars

(***************************************************************************)
(* process_depth_array on its own: Init draws the array and the scale,     *)
(* the only step applies the function.                                     *)
(***************************************************************************)
InitNormalize ==
    /\ pc = "checked"
    /\ use_cube = FALSE
    /\ depth_scale \in DepthScales
    /\ data \in RawArrays
    /\ depth_array = data
    /\ grid = NoArray
    /\ bm = EmptyBMesh
    /\ base_verts = <<>>
    /\ data_meshes = <<>>
    /\ data_objects = <<>>
    /\ collection = <<>>
    /\ mesh_obj = <<>>
    /\ selected = {}
    /\ active = {}
    /\ reports = <<>>
    /\ result = "NONE"

NextNormalize == ProcessDepthArray

SpecNormalize == InitNormalize /\ [][NextNormalize]_vars

(***************************************************************************)
(* Properties.                                                             *)
(***************************************************************************)
Built == pc \in {"built", "done"} /\ mesh_obj # <<>>

\* the array handed to create_depthmap_bmesh (padded for the cube)
GridHeight == grid.shape[1]
GridWidth == grid.shape[2]

IsFinite(a) == \A v \in Elements(a) : ~IsNaN(v)
IsConstant(a) == \A u, v \in Elements(a) : u = v

NoCallRaised == \A i \in 1 .. Len(bm.calls) : ~bm.calls[i].raised
BaseCallRaised == use_cube /\ bm.calls # <<>> /\ bm.calls[Len(bm.calls)].raised

XCoords == {bm.verts[i][1] : i \in 1 .. Len(bm.verts)}
YCoords == {bm.verts[i][2] : i \in 1 .. Len(bm.verts)}
RatMinOf(S) == LET es == S IN CHOOSE m \in es : \A e \in es : RatLeq(m, e)
RatMaxOf(S) == LET es == S IN CHOOSE m \in es : \A e \in es : RatLeq(e, m)
Neg(a) == RatSub(Zero, a)

\* C1: a processed array whose input elements are all equal is all zero.
C1_ConstantBecomesZero ==
    (pc = "processed" /\ IsConstant(data))
        => \A v \in Elements(depth_array) : v = Zero

\* C2: for a finite input with max > min the processed array has minimum 0
\* and maximum depth_scale, and each element is (v - min) / (max - min) * scale.
C2_NormalizedRange ==
    (pc = "processed" /\ IsFinite(data) /\ RatLess(NpMin(data), NpMax(data)))
        => LET lo == NpMin(data)
               span == RatSub(NpMax(data), lo)
           IN /\ depth_array.shape = data.shape
              /\ NpMin(depth_array) = Zero
              /\ NpMax(depth_array) = depth_scale
              /\ \A r \in Rows(data), c \in Cols(data) :
                   RatMul(depth_array.data[r][c], span)
                     = RatMul(RatSub(data.data[r][c], lo), depth_scale)

C2_Witness ==
    /\ pc = "processed"
    /\ IsFinite(data)
    /\ RatLess(NpMin(data), NpMax(data))
    /\ NpMin(data) # Zero
    /\ depth_scale # One
    /\ \E v \in Elements(depth_array) : v \notin {Zero, depth_scale}

\* C3: the vertices of a non-square grid are centered at the origin: the
\* longer axis spans [-1/2, 1/2], the shorter [-m/2, m/2] with m the ratio
\* of the shorter to the longer side.
C3_CenteredAtOrigin ==
    (Built /\ GridWidth # GridHeight)
        => LET mw == Rat(IF GridHeight > GridWidth THEN GridWidth ELSE GridHeight,
                         IF GridHeight > GridWidth THEN GridHeight ELSE GridWidth)
               xs == IF GridWidth > GridHeight THEN One ELSE mw
               ys == IF GridWidth > GridHeight THEN mw ELSE One
           IN /\ RatMinOf(XCoords) = Neg(RatMul(xs, Half))
              /\ RatMaxOf(XCoords) = RatMul(xs, Half)
              /\ RatMinOf(YCoords) = Neg(RatMul(ys, Half))
              /\ RatMaxOf(YCoords) = RatMul(ys, Half)

\* C4: with height, width >= 2 and no failed face creation the plane has
\* (height-1)*(width-1) faces, the solid the (height+1)*(width+1) quads of
\* the padded grid plus exactly one base face.
C4_FaceCount ==
    (Built /\ InHeight >= 2 /\ InWidth >= 2 /\ NoCallRaised)
        => LET faces == data_meshes[1].faces
               quads == IF use_cube THEN (InHeight + 1) * (InWidth + 1)
                                    ELSE (InHeight - 1) * (InWidth - 1)
           IN /\ Len(faces) = (IF use_cube THEN quads + 1 ELSE quads)
              /\ \A i \in 1 .. quads : i <= Len(faces) /\ Len(faces[i]) = 4
              /\ Cardinality({SeqRange(faces[i]) : i \in 1 .. Len(faces)}) = Len(faces)
              /\ use_cube => faces[Len(faces)] = base_verts

C4_Witness ==
    /\ Built
    /\ pc = "done"
    /\ use_cube
    /\ InHeight >= 2
    /\ InWidth >= 2
    /\ NoCallRaised
    /\ InHeight = 2
    /\ InWidth = 3
    /\ Len(data_meshes[1].faces) = 13

\* C5: the plane has height*width vertices, the solid (height+2)*(width+2);
\* the base face adds none and refers only to vertices of the padded grid.
C5_VertexCount ==
    Built
        => /\ Len(bm.verts) = (IF use_cube THEN (InHeight + 2) * (InWidth + 2)
                                           ELSE InHeight * InWidth)
           /\ data_meshes[1].verts = bm.verts
           /\ Len(bm.verts) = GridHeight * GridWidth
           /\ \A i \in 1 .. Len(base_verts) :
                base_verts[i] >= 0 /\ base_verts[i] < GridHeight * GridWidth

C5_Witness ==
    /\ Built
    /\ pc = "done"
    /\ use_cube
    /\ InHeight = 1
    /\ InWidth = 2
    /\ Len(base_verts) > 0
    /\ Len(data_meshes[1].verts) = 12

\* C6: the vertex at index y*width + x has the depth of array[height-1-y, x];
\* the vertices of y = 0 lie at the minimum mesh y, those of y = height-1
\* (source row 0) at the maximum.
C6_RowFlip ==
    Built
        => LET ymin == RatMinOf(YCoords)
               ymax == RatMaxOf(YCoords)
           IN /\ \A y \in 0 .. (GridHeight - 1), x \in 0 .. (GridWidth - 1) :
                   /\ y * GridWidth + x + 1 \in DOMAIN bm.verts
                   /\ bm.verts[y * GridWidth + x + 1][3] = grid.data[GridHeight - 1 - y][x]
              /\ \A x \in 0 .. (GridWidth - 1) :
                   GridHeight >= 1 =>
                     /\ bm.verts[x + 1][2] = ymin
                     /\ bm.verts[(GridHeight - 1) * GridWidth + x + 1][2] = ymax

C6_Witness ==
    /\ Built
    /\ ~use_cube
    /\ GridHeight = 2
    /\ \E x \in 0 .. (GridWidth - 1) :
         /\ grid.data[0][x] # grid.data[1][x]
         /\ bm.verts[x + 1][3] = grid.data[1][x]

InvalidShape(a) == Ndim(a) # 2 \/ a.shape[1] < 1 \/ a.shape[2] < 1

\* C7: an array that is not 2-dimensional or has height < 1 or width < 1 is
\* rejected: an error is reported, the result is CANCELLED, and no mesh or
\* object is created, linked, selected or reported as imported.
C7_InvalidShapeRejected ==
    (pc # "start" /\ InvalidShape(data))
        => /\ pc \in {"loaded", "checked", "done"}
           /\ data_meshes = <<>>
           /\ data_objects = <<>>
           /\ collection = <<>>
           /\ mesh_obj = <<>>
           /\ selected = {}
           /\ active = {}
           /\ bm = EmptyBMesh
           /\ \A i \in 1 .. Len(reports) : reports[i].level # "INFO"
           /\ pc = "done" => /\ result = "CANCELLED"
                             /\ reports # <<>>
                             /\ reports[Len(reports)].level = "ERROR"

C7_Witness ==
    /\ pc = "done"
    /\ Ndim(data) = 2
    /\ data.shape[1] = 0
    /\ data.shape[2] = 2
    /\ result = "CANCELLED"

\* the quads that were created, in the order of their requests
RECURSIVE CreatedQuads(_, _)
CreatedQuads(calls, n) ==
    IF n = 0 THEN <<>>
    ELSE IF calls[n].raised THEN CreatedQuads(calls, n - 1)
    ELSE Append(CreatedQuads(calls, n - 1), calls[n].face)

\* C8: when the base face of the solid fails, the failure is reported and
\* the object is returned with every vertex and every created quad of the
\* padded grid written to its mesh, unaltered.
C8_BaseFailureKeepsMesh ==
    (Built /\ BaseCallRaised)
        => /\ \E i \in 1 .. Len(reports) :
                reports[i] = Report("ERROR", "Failed to create base face")
           /\ mesh_obj = <<"DepthMap_Cube">>
           /\ collection = <<"DepthMap_Cube">>
           /\ Len(data_meshes[1].verts) = (InHeight + 2) * (InWidth + 2)
           /\ \A y \in 0 .. (GridHeight - 1), x \in 0 .. (GridWidth - 1) :
                data_meshes[1].verts[y * GridWidth + x + 1][3]
                  = grid.data[GridHeight - 1 - y][x]
           /\ Len(bm.calls) = (InHeight + 1) * (InWidth + 1) + 1
           /\ data_meshes[1].faces = CreatedQuads(bm.calls, Len(bm.calls) - 1)
           /\ Len(data_meshes[1].faces) = (InHeight + 1) * (InWidth + 1)
           /\ pc = "done" => result = "FINISHED"

C8_Witness ==
    /\ Built
    /\ pc = "done"
    /\ BaseCallRaised
    /\ NpMin(depth_array) # NpMax(depth_array)
    /\ Len(data_meshes[1].faces) = 9
    /\ result = "FINISHED"

\* vertex indices on the outer border of the grid
Border(height, width) ==
    {y * width + x : y \in {0, height - 1}, x \in 0 .. (width - 1)}
      \cup {y * width + x : y \in 0 .. (height - 1), x \in {0, width - 1}}

\* two border vertices next to each other in a row or in a column
Neighbours(a, b, width) ==
    \/ a \div width = b \div width /\ Abs((a % width) - (b % width)) = 1
    \/ a % width = b % width /\ Abs((a \div width) - (b \div width)) = 1

\* C9: the base polygon walks the border of the padded grid exactly once:
\* every border vertex once, no interior vertex, consecutive vertices
\* (cyclically) neighbours along the border.
C9_BaseWalksBorder ==
    (Built /\ use_cube)
        => /\ Len(base_verts) = 2 * GridHeight + 2 * GridWidth - 4
           /\ SeqRange(base_verts) = Border(GridHeight, GridWidth)
           /\ \A i, j \in 1 .. Len(base_verts) : i < j => base_verts[i] # base_verts[j]
           /\ \A i \in 1 .. Len(base_verts) :
                Neighbours(base_verts[i], base_verts[(i % Len(base_verts)) + 1], GridWidth)

\* C10: every requested face has pairwise distinct vertex indices within
\* [0, vertex count); the base polygon has at least 3 vertices and is not
\* on the vertex set of a quad.
C10_RequestedFacesWellFormed ==
    Built
        => /\ Len(bm.calls) = (GridHeight - 1) * (GridWidth - 1) + (IF use_cube THEN 1 ELSE 0)
           /\ \A k \in 1 .. Len(bm.calls) :
                LET face == bm.calls[k].face
                IN /\ \A i \in 1 .. Len(face) : face[i] >= 0 /\ face[i] < Len(bm.verts)
                   /\ Cardinality(SeqRange(face)) = Len(face)
           /\ use_cube =>
                /\ bm.calls[Len(bm.calls)].face = base_verts
                /\ Len(base_verts) >= 3
                /\ SeqRange(base_verts)
                     \notin {SeqRange(bm.calls[k].face) : k \in 1 .. (Len(bm.calls) - 1)}

C10_Witness ==
    /\ Built
    /\ use_cube
    /\ InHeight = 1
    /\ InWidth = 1
    /\ Len(base_verts) = 4
    /\ Len(bm.calls) = 5

====
